---- MODULE Spec2Model ----
(***************************************************************************)
(* A model of the aiai_eval task code: the extractive question-answering  *)
(* postprocessing (postprocess_predictions, postprocess_labels), the       *)
(* feature builder (prepare_test_examples), the label canonicaliser of the *)
(* sequence-classification task (_create_numerical_labels), the task      *)
(* pipeline that dispatches on the model framework, and the lookup of a    *)
(* local model's configuration (get_from_config).                          *)
(*                                                                         *)
(* Conventions.  Python lists are TLA+ sequences, so a token position k of *)
(* the source (0-based) is position k+1 here; character offsets are data   *)
(* and keep their 0-based Python values.  Strings are sequences of         *)
(* one-character strings, so that slicing and upper-casing are computed.   *)
(* Logits are floats in the source and small integers here.                *)
(***************************************************************************)
EXTENDS Integers, Sequences, FiniteSets, TLC

VARIABLES
    \* ---- question answering: postprocess_predictions and its caller ----
    dataset,              \* the examples: sequence of [id, context, answers]
    prepared_dataset,     \* the features: sequence of [id, input_ids, offset_mapping]
    cls_token_index,      \* the classifier-token id handed to the call
    all_start_logits,     \* feature index -> start logits, the rows the current
    all_end_logits,       \*   example has read so far (likewise the end logits)
    pc,                   \* position in _prepare_predictions_and_labels
    features_per_example, \* example index -> list of feature indices
    example_index,        \* loop variable of the example loop
    fpos,                 \* how many of feature_indices have been visited
    min_null_score,       \* running null-answer reference score
    valid_answers,        \* candidates of the current example, in append order
    best_answer,          \* the candidate chosen for the last decided example
    predictions,          \* the list postprocess_predictions builds
    returned,             \* what _prepare_predictions_and_labels returned
    error,                \* the exception that ended the call, or NoError
    \* ---- the task pipeline and its preprocessing stage ----
    task_config,          \* the task: [name, supertask, pretty_name]
    framework,            \* "pytorch" or "spacy"
    stage,                \* Idle, Preprocessed, Inferred, Postprocessed, Scored, Error
    examples,             \* the raw batch handed to the preprocessing
    label2id,             \* the label mapping of the model configuration
    tokenised,            \* the tokenizer's return (QA); the tokenised batch (classification)
    preprocessed,         \* the output of the preprocessing stage
    task_error,           \* the exception that ended the pipeline, or NoError
    tokenizer_calls,      \* number of tokenizer calls made
    predict_calls,        \* number of inference calls made
    \* ---- the configuration of a local model: get_from_config ----
    folder,               \* the *.json files of the model folder: name -> JSON document
    glob_order,           \* the order in which glob lists the files of the folder
    expected_type,        \* the expected_type argument of the calls
    default_value,        \* the default_value argument of the calls
    user_prompt_default_value, \* the user_prompt_default_value argument
    config_calls          \* one record per call of get_from_config made so far

qaVars == <<dataset, prepared_dataset, cls_token_index, all_start_logits,
            all_end_logits, pc, features_per_example, example_index, fpos,
            min_null_score, valid_answers, best_answer, predictions,
            returned, error>>

taskVars == <<task_config, framework, stage, examples, label2id, tokenised,
              preprocessed, task_error, tokenizer_calls, predict_calls>>

cfgVars == <<folder, glob_order, expected_type, default_value,
             user_prompt_default_value, config_calls>>

vars == <<qaVars, taskVars, cfgVars>>

-----------------------------------------------------------------------------
(* Bounds of the model *)

MaxExamples == 2
MaxFeatures == 2
MaxBatch == 2

(* Program constants *)

n_best_size == 20
max_answer_length == 30

\* tokenizer.model_max_length, and the stride and the padded window length
\* prepare_test_examples derives from it; every feature and every logit
\* vector has max_length positions.
model_max_length == 4
stride == model_max_length \div 4
max_length == model_max_length - stride

-----------------------------------------------------------------------------
(* Python values *)

NoError == [type |-> "none"]
SENTINEL == <<-1, -1>>

Min(a, b) == IF a < b THEN a ELSE b
Max(a, b) == IF a > b THEN a ELSE b

PyTuple(v) == [type |-> "tuple", val |-> v]
PyInt(n) == [type |-> "int", val |-> n]

\* Python's == on a list/tuple and an int: values of different types are
\* never equal; values of the same type are compared by value.
PyEq(a, b) == IF a.type # b.type THEN FALSE ELSE a.val = b.val

\* s[a:b] for a Python string, with negative bounds counted from the end
\* and out-of-range bounds clipped.
PyClip(i, n) == IF i < 0 THEN Max(i + n, 0) ELSE Min(i, n)
PySlice(s, a, b) ==
    LET lo == PyClip(a, Len(s))
        hi == PyClip(b, Len(s))
    IN  IF lo < hi THEN SubSeq(s, lo + 1, hi) ELSE <<>>

\* A lookup that answers the first position when x is missing.
ListIndex_Lenient(s, x) ==
    IF \E i \in 1..Len(s) : s[i] = x
    THEN CHOOSE i \in 1..Len(s) : s[i] = x /\ \A j \in 1..(i - 1) : s[j] # x
    ELSE 1

\* list.index(x): the first position holding x, 0 when there is none (the
\* source raises ValueError there).
ListIndex(s, x) ==
    IF \E i \in 1..Len(s) : s[i] = x
    THEN CHOOSE i \in 1..Len(s) : s[i] = x /\ \A j \in 1..(i - 1) : s[j] # x
    ELSE 0

\* np.argsort(v)[-1 : -n_best_size - 1 : -1]: the positions of the
\* n_best_size largest entries, largest first.  The logit vectors of the
\* model have pairwise distinct entries, so the order does not depend on
\* how the sort breaks ties.
ArgsortDesc(v) ==
    [k \in 1..Len(v) |->
        CHOOSE i \in 1..Len(v) : Cardinality({j \in 1..Len(v) : v[j] > v[i]}) = k - 1]
\* A selection that keeps every position.
NBest_All(v) == ArgsortDesc(v)

NBest(v) == SubSeq(ArgsortDesc(v), 1, Min(n_best_size, Len(v)))

-----------------------------------------------------------------------------
(* Inputs of the question-answering postprocessing *)

ExampleA == [id |-> "a", context |-> <<"p", "q">>,
             answers |-> [text |-> << <<"p">> >>, answer_start |-> <<0>>]]
ExampleB == [id |-> "b", context |-> <<"r", "s">>,
             answers |-> [text |-> <<>>, answer_start |-> <<>>]]
\* A second example that repeats the id of ExampleA.
ExampleA2 == [id |-> "a", context |-> <<"r", "s">>,
              answers |-> [text |-> << <<"s">> >>, answer_start |-> <<1>>]]
ContextLen == Len(ExampleA.context)

SeqsUpTo(S, lo, hi) == UNION {[1..n -> S] : n \in lo..hi}

\* The datasets are the leading parts of two example lists: one of distinct
\* ids first, one that repeats an id.
ExampleOrders == {<<ExampleA, ExampleB, ExampleA2>>, <<ExampleA, ExampleA2, ExampleB>>}
Datasets ==
    {SubSeq(o, 1, n) : o \in ExampleOrders, n \in 1..Min(MaxExamples, 3)}

ClsTokenIds == {101}
OtherTokenIds == {7}

\* A window either starts with the classifier token or holds none.
InputIdLists ==
    {[k \in 1..max_length |-> IF k = 1 THEN first ELSE other] :
        first \in ClsTokenIds \cup OtherTokenIds, other \in OtherTokenIds}

\* Offset mappings as prepare_test_examples leaves them: the context
\* follows the classifier token, its one-character tokens fill the positions
\* 2..l up to the end of the context, and every other position (classifier
\* token, padding) holds SENTINEL.
OffsetMappings ==
    {[k \in 1..max_length |->
        IF k \in 2..l
        THEN <<ContextLen - (l - k) - 1, ContextLen - (l - k)>>
        ELSE SENTINEL] :
        l \in {m \in 2..max_length : m - 1 <= ContextLen}}

\* A feature may carry an id that no example of the dataset has.
Features ==
    [id : {"a", "b"}, input_ids : InputIdLists, offset_mapping : OffsetMappings]
PreparedDatasets == SeqsUpTo(Features, 0, MaxFeatures)

\* The logit vectors of the model: every position takes every value once
\* over the three vectors, and no vector holds a value twice.
LogitVectors == {<<1, -1, 0>>, <<0, 1, -1>>, <<-1, 0, 1>>}

\* A window with more positions than n_best_size, for the example "a": the
\* classifier token, the two context tokens, then padding.
LongWindow == n_best_size + 2
LongFeature ==
    [id |-> "a",
     input_ids |-> [k \in 1..LongWindow |->
                      IF k = 1 THEN CHOOSE c \in ClsTokenIds : TRUE
                      ELSE CHOOSE c \in OtherTokenIds : TRUE],
     offset_mapping |-> [k \in 1..LongWindow |->
                           IF k \in 2..(ContextLen + 1) THEN <<k - 2, k - 1>>
                           ELSE SENTINEL]]
LongPreparedDatasets == SeqsUpTo({LongFeature}, 1, Min(MaxFeatures, 2))

\* Logit vectors for a long window, with pairwise distinct entries: rising,
\* falling, and two whose entries at the first positions are the smallest
\* or the largest of all.
LongLogitVectors ==
    {[k \in 1..LongWindow |-> k],
     [k \in 1..LongWindow |-> 0 - k],
     [k \in 1..LongWindow |-> IF k <= 2 THEN k - 40 ELSE 0 - k],
     [k \in 1..LongWindow |-> IF k <= 2 THEN 40 - k ELSE 0 - k]}

\* The rows the model can give for a feature: one entry per position.
LogitsFor(f) ==
    IF Len(f.input_ids) = LongWindow THEN LongLogitVectors ELSE LogitVectors

-----------------------------------------------------------------------------
(* postprocess_predictions *)

\* A map in which a repeated id keeps its first index.
IdToIndex_First(ds, id) ==
    IF \E i \in 1..Len(ds) : ds[i].id = id
    THEN CHOOSE i \in 1..Len(ds) :
            ds[i].id = id /\ \A j \in 1..(i - 1) : ds[j].id # id
    ELSE 0

\* id_to_index = {k: i for i, k in enumerate(dataset["id"])}: a repeated id
\* keeps its last index; 0 stands for a missing key.
IdToIndex(ds, id) ==
    IF \E i \in 1..Len(ds) : ds[i].id = id
    THEN CHOOSE i \in 1..Len(ds) :
            ds[i].id = id /\ \A j \in (i + 1)..Len(ds) : ds[j].id # id
    ELSE 0

\* The positions from i on, in ascending order, at which ids holds target.
RECURSIVE IndicesWhere(_, _, _)
IndicesWhere(ids, target, i) ==
    IF i > Len(ids) THEN <<>>
    ELSE (IF ids[i] = target THEN <<i>> ELSE <<>>) \o IndicesWhere(ids, target, i + 1)

\* features_per_example after the grouping loop, as a total function on the
\* example indices (a defaultdict(list) reads as [] where nothing was put).
FeaturesPerExample(ds, prepared) ==
    [j \in 1..Len(ds) |->
        IndicesWhere([i \in 1..Len(prepared) |-> IdToIndex(ds, prepared[i].id)], j, 1)]

\* The first feature whose id is no key of id_to_index (0: there is none).
FirstUnknownFeature(ds, prepared) ==
    IF \E i \in 1..Len(prepared) : IdToIndex(ds, prepared[i].id) = 0
    THEN CHOOSE i \in 1..Len(prepared) :
            IdToIndex(ds, prepared[i].id) = 0
            /\ \A j \in 1..(i - 1) : IdToIndex(ds, prepared[j].id) # 0
    ELSE 0

FeatureNullScore(f, sl, el, cls) ==
    sl[ListIndex(f.input_ids, cls)] + el[ListIndex(f.input_ids, cls)]

\* A reference score that is carried over from the previous example.
StartNullScore_Carried(previous) == previous

\* Line 203: the reference score every example starts with.
StartNullScore(previous) == 0

\* An update that tracks the smallest null score.
UpdateNullScore_Smallest(cur, feature_null_score) ==
    IF cur > feature_null_score THEN feature_null_score ELSE cur

UpdateNullScore(cur, feature_null_score) ==
    IF cur < feature_null_score THEN feature_null_score ELSE cur

\* The first test of the inner loop (lines 238-244).
OutOfScope(offset_mapping, start_index, end_index) ==
    \/ start_index > Len(offset_mapping)
    \/ end_index > Len(offset_mapping)
    \/ PyEq(PyTuple(offset_mapping[start_index]), PyInt(-1))
    \/ PyEq(PyTuple(offset_mapping[end_index]), PyInt(-1))

\* The second test of the inner loop (lines 248-251).
BadLength(start_index, end_index) ==
    LET max_val == max_answer_length + start_index - 1
    IN  end_index < start_index \/ end_index > max_val

\* The candidates one feature appends to valid_answers, in append order.
\* score and text are the dict of the source; feature_index, start_index
\* and end_index record where the candidate came from.
FeatureCandidates(fi, f, sl, el, context) ==
    LET start_indexes == NBest(sl)
        end_indexes == NBest(el)
        ne == Len(end_indexes)
        pairs == [k \in 1..(Len(start_indexes) * ne) |->
                    <<start_indexes[((k - 1) \div ne) + 1],
                      end_indexes[((k - 1) % ne) + 1]>>]
        Kept(p) == ~OutOfScope(f.offset_mapping, p[1], p[2]) /\ ~BadLength(p[1], p[2])
        kept == SelectSeq(pairs, Kept)
    IN  [k \in 1..Len(kept) |->
            [score |-> sl[kept[k][1]] + el[kept[k][2]],
             text |-> PySlice(context, f.offset_mapping[kept[k][1]][1],
                                       f.offset_mapping[kept[k][2]][2]),
             feature_index |-> fi,
             start_index |-> kept[k][1],
             end_index |-> kept[k][2]]]

FakeAnswer == [text |-> <<>>, score |-> 0]

\* A choice whose fallback candidate scores below 0.0.
BestAnswer_NegativeFallback(va) ==
    IF Len(va) > 0
    THEN LET i == CHOOSE i \in 1..Len(va) :
                    /\ \A j \in 1..Len(va) : va[j].score <= va[i].score
                    /\ \A j \in 1..(i - 1) : va[j].score < va[i].score
         IN  [text |-> va[i].text, score |-> va[i].score]
    ELSE [text |-> <<>>, score |-> -1]

\* sorted(valid_answers, key=score, reverse=True)[0]: sorted is stable, so
\* the first candidate in append order among those of the highest score.
BestAnswer(va) ==
    IF Len(va) > 0
    THEN LET i == CHOOSE i \in 1..Len(va) :
                    /\ \A j \in 1..Len(va) : va[j].score <= va[i].score
                    /\ \A j \in 1..(i - 1) : va[j].score < va[i].score
         IN  [text |-> va[i].text, score |-> va[i].score]
    ELSE FakeAnswer

\* The decision with >= in place of >.
PredictionText_AtLeast(best, null_score) ==
    IF best.score >= null_score THEN best.text ELSE <<>>

PredictionText(best, null_score) ==
    IF best.score > null_score THEN best.text ELSE <<>>

MakePrediction(example, text) ==
    [id |-> example.id, prediction_text |-> text, no_answer_probability |-> 0]

\* A label extraction that skips the examples without an answer.
PostprocessLabels_SkipUnanswerable(ds) ==
    LET HasAnswer(e) == Len(e.answers.text) > 0
        kept == SelectSeq(ds, HasAnswer)
    IN  [k \in 1..Len(kept) |->
            [id |-> kept[k].id,
             answers |-> [text |-> kept[k].answers.text,
                          answer_start |-> kept[k].answers.answer_start]]]

\* postprocess_labels
PostprocessLabels(ds) ==
    [k \in 1..Len(ds) |->
        [id |-> ds[k].id,
         answers |-> [text |-> ds[k].answers.text,
                      answer_start |-> ds[k].answers.answer_start]]]


-----------------------------------------------------------------------------
(* QuestionAnswering._prepare_predictions_and_labels, step by step *)

NoRows == [i \in {} |-> <<>>]
NoOutput == [type |-> "none"]

\* The configuration variables while no configuration is looked up.
ConfigOff ==
    /\ folder = NoRows
    /\ glob_order = <<>>
    /\ expected_type = "none"
    /\ default_value = NoOutput
    /\ user_prompt_default_value = NoOutput
    /\ config_calls = <<>>

\* The pipeline variables while only the postprocessing is looked at.
TaskOff ==
    /\ task_config = NoOutput
    /\ framework = "pytorch"
    /\ stage = "Off"
    /\ examples = NoOutput
    /\ label2id = NoRows
    /\ tokenised = NoOutput
    /\ preprocessed = NoOutput
    /\ task_error = NoError
    /\ tokenizer_calls = 0
    /\ predict_calls = 0

InitQA ==
    /\ dataset \in Datasets
    /\ prepared_dataset \in PreparedDatasets
    /\ cls_token_index \in ClsTokenIds
    /\ all_start_logits = NoRows
    /\ all_end_logits = NoRows
    /\ pc = "start"
    /\ features_per_example = <<>>
    /\ example_index = 0
    /\ fpos = 0
    /\ min_null_score = 0
    /\ valid_answers = <<>>
    /\ best_answer = FakeAnswer
    /\ predictions = <<>>
    /\ returned = <<>>
    /\ error = NoError
    /\ TaskOff
    /\ ConfigOff

\* Lines 184-193: the feature-to-example grouping.  id_to_index[id] raises
\* KeyError for a feature whose id no example has.
BuildIndex ==
    /\ pc = "start"
    /\ IF FirstUnknownFeature(dataset, prepared_dataset) # 0
       THEN /\ pc' = "error"
            /\ error' = [type |-> "KeyError",
                         key |-> prepared_dataset[
                                    FirstUnknownFeature(dataset, prepared_dataset)].id]
            /\ UNCHANGED <<features_per_example, example_index>>
       ELSE /\ pc' = "example"
            /\ features_per_example' = FeaturesPerExample(dataset, prepared_dataset)
            /\ example_index' = 1
            /\ UNCHANGED error
    /\ UNCHANGED <<dataset, prepared_dataset, cls_token_index, all_start_logits,
                   all_end_logits, fpos, min_null_score, valid_answers,
                   best_answer, predictions, returned>>
    /\ UNCHANGED taskVars
    /\ UNCHANGED cfgVars

\* Lines 194-204: the head of the example loop.  The logit rows of the
\* previous example are not read again and are dropped from the state.
BeginExample ==
    /\ pc = "example"
    /\ example_index <= Len(dataset)
    /\ pc' = "feature"
    /\ fpos' = 0
    /\ min_null_score' = StartNullScore(min_null_score)
    /\ valid_answers' = <<>>
    /\ all_start_logits' = NoRows
    /\ all_end_logits' = NoRows
    /\ UNCHANGED <<dataset, prepared_dataset, cls_token_index, features_per_example,
                   example_index, best_answer, predictions, returned, error>>
    /\ UNCHANGED taskVars
    /\ UNCHANGED cfgVars

\* Lines 205-258: one pass of the feature loop.  The logits of the feature
\* are read here; input_ids.index raises ValueError when the classifier
\* token is absent.
VisitFeature ==
    /\ pc = "feature"
    /\ fpos < Len(features_per_example[example_index])
    /\ LET feature_index == features_per_example[example_index][fpos + 1]
           f == prepared_dataset[feature_index]
       IN  \E sl \in LogitsFor(f), el \in LogitsFor(f) :
            /\ all_start_logits' = (feature_index :> sl) @@ all_start_logits
            /\ all_end_logits' = (feature_index :> el) @@ all_end_logits
            /\ IF ListIndex(f.input_ids, cls_token_index) = 0
               THEN /\ pc' = "error"
                    /\ error' = [type |-> "ValueError", key |-> cls_token_index]
                    /\ UNCHANGED <<fpos, min_null_score, valid_answers>>
               ELSE /\ min_null_score' =
                          UpdateNullScore(min_null_score,
                              FeatureNullScore(f, sl, el, cls_token_index))
                    /\ valid_answers' = valid_answers \o
                          FeatureCandidates(feature_index, f, sl, el,
                                            dataset[example_index].context)
                    /\ fpos' = fpos + 1
                    /\ UNCHANGED <<pc, error>>
    /\ UNCHANGED <<dataset, prepared_dataset, cls_token_index, features_per_example,
                   example_index, best_answer, predictions, returned>>
    /\ UNCHANGED taskVars
    /\ UNCHANGED cfgVars

\* Lines 260-285: the best answer, the null-answer decision and the
\* prediction of the example.
DecideExample ==
    /\ pc = "feature"
    /\ fpos = Len(features_per_example[example_index])
    /\ best_answer' = BestAnswer(valid_answers)
    /\ predictions' = Append(predictions,
          MakePrediction(dataset[example_index],
              PredictionText(BestAnswer(valid_answers), min_null_score)))
    /\ example_index' = example_index + 1
    /\ pc' = "example"
    /\ UNCHANGED <<dataset, prepared_dataset, cls_token_index, all_start_logits,
                   all_end_logits, features_per_example, fpos, min_null_score,
                   valid_answers, returned, error>>
    /\ UNCHANGED taskVars
    /\ UNCHANGED cfgVars

\* Line 287 and lines 62-65: postprocess_predictions returns, the labels are
\* extracted and the pair is packaged.
ReturnPair ==
    /\ pc = "example"
    /\ example_index > Len(dataset)
    /\ returned' = << <<predictions, PostprocessLabels(dataset)>> >>
    /\ pc' = "done"
    /\ UNCHANGED <<dataset, prepared_dataset, cls_token_index, all_start_logits,
                   all_end_logits, features_per_example, example_index, fpos,
                   min_null_score, valid_answers, best_answer, predictions, error>>
    /\ UNCHANGED taskVars
    /\ UNCHANGED cfgVars

\* The call for one example whose windows are long.
InitQALong ==
    /\ dataset = <<ExampleA>>
    /\ prepared_dataset \in LongPreparedDatasets
    /\ cls_token_index \in ClsTokenIds
    /\ all_start_logits = NoRows
    /\ all_end_logits = NoRows
    /\ pc = "start"
    /\ features_per_example = <<>>
    /\ example_index = 0
    /\ fpos = 0
    /\ min_null_score = 0
    /\ valid_answers = <<>>
    /\ best_answer = FakeAnswer
    /\ predictions = <<>>
    /\ returned = <<>>
    /\ error = NoError
    /\ TaskOff
    /\ ConfigOff

NextQA == BuildIndex \/ BeginExample \/ VisitFeature \/ DecideExample \/ ReturnPair

SpecQA == InitQA /\ [][NextQA]_vars
SpecQALong == InitQALong /\ [][NextQA]_vars

-----------------------------------------------------------------------------
(* Strings: str.upper, str.lower and str.lstrip on sequences of characters *)

LowerChars == <<"a", "b", "c", "d", "e", "f", "g", "h", "i", "j", "k", "l", "m",
                "n", "o", "p", "q", "r", "s", "t", "u", "v", "w", "x", "y", "z">>
UpperChars == <<"A", "B", "C", "D", "E", "F", "G", "H", "I", "J", "K", "L", "M",
                "N", "O", "P", "Q", "R", "S", "T", "U", "V", "W", "X", "Y", "Z">>
Whitespace == {" "}

PyUpperChar(c) ==
    IF \E i \in 1..Len(LowerChars) : LowerChars[i] = c
    THEN UpperChars[CHOOSE i \in 1..Len(LowerChars) : LowerChars[i] = c]
    ELSE c
PyLowerChar(c) ==
    IF \E i \in 1..Len(UpperChars) : UpperChars[i] = c
    THEN LowerChars[CHOOSE i \in 1..Len(UpperChars) : UpperChars[i] = c]
    ELSE c

\* A lookup key that keeps the letter case of the raw label.
PyUpper_Verbatim(str) == str

PyUpper(str) == [i \in 1..Len(str) |-> PyUpperChar(str[i])]
PyLower(str) == [i \in 1..Len(str) |-> PyLowerChar(str[i])]

RECURSIVE PyLstrip(_)
PyLstrip(str) ==
    IF Len(str) > 0 /\ str[1] \in Whitespace THEN PyLstrip(Tail(str)) ELSE str

-----------------------------------------------------------------------------
(* The label table of the sentiment task and the label mapping *)

\* The label strings, as sequences of characters.
NEGATIVE == <<"N", "E", "G", "A", "T", "I", "V", "E">>
NEG == <<"N", "E", "G">>
NEGATIV == <<"N", "E", "G", "A", "T", "I", "V">>
LABEL_0 == <<"L", "A", "B", "E", "L", "_", "0">>
NEUTRAL == <<"N", "E", "U", "T", "R", "A", "L">>
NEU == <<"N", "E", "U">>
LABEL_1 == <<"L", "A", "B", "E", "L", "_", "1">>
POSITIVE == <<"P", "O", "S", "I", "T", "I", "V", "E">>
POS == <<"P", "O", "S">>
POSITIV == <<"P", "O", "S", "I", "T", "I", "V">>
LABEL_2 == <<"L", "A", "B", "E", "L", "_", "2">>
BAD_lower == <<"b", "a", "d">>
NEG_space == <<"N", "E", "G", " ">>
Neg_mixed == <<"N", "e", "g">>

SENT_labels == <<
    [name |-> NEGATIVE, synonyms |-> <<NEG, NEGATIV, LABEL_0>>],
    [name |-> NEUTRAL, synonyms |-> <<NEU, LABEL_1>>],
    [name |-> POSITIVE, synonyms |-> <<POS, POSITIV, LABEL_2>>] >>

SeqRange(q) == {q[k] : k \in 1..Len(q)}
LabelNames(label) == {label.name} \cup SeqRange(label.synonyms)
DeclaredNames(labels) == UNION {LabelNames(labels[k]) : k \in 1..Len(labels)}

\* The id of a canonical label is its position in the label table, from 0.
LabelId(labels, str) ==
    (CHOOSE k \in 1..Len(labels) : str \in LabelNames(labels[k])) - 1

\* A mapping that holds every canonical name and every declared synonym, and
\* one that holds the canonical names only.
FullLabel2id(labels) == [str \in DeclaredNames(labels) |-> LabelId(labels, str)]
CanonicalLabel2id(labels) ==
    [str \in {labels[k].name : k \in 1..Len(labels)} |-> LabelId(labels, str)]
Label2ids == {FullLabel2id(SENT_labels), CanonicalLabel2id(SENT_labels)}

\* Raw labels of a batch: every declared name as written and in lower case,
\* one in mixed case, and strings that are no declared name in any case.
UndeclaredLabels == {BAD_lower, NEG_space}
RawLabels ==
    DeclaredNames(SENT_labels)
        \cup {PyLower(str) : str \in DeclaredNames(SENT_labels)}
        \cup {Neg_mixed}
        \cup UndeclaredLabels

-----------------------------------------------------------------------------
(* SequenceClassification._create_numerical_labels and _preprocess_data *)

Unmapped(labels, l2i) ==
    SelectSeq(labels, LAMBDA lbl : PyUpper(lbl) \notin DOMAIN l2i)

\* [lbl.upper() for lbl in examples["labels"] if lbl.upper() not in label2id][0]
MissingLabelOf(labels, l2i) == PyUpper(Unmapped(labels, l2i)[1])

\* The outcome of _create_numerical_labels: the exception raised (or NoError)
\* and examples["labels"] when the call ends.  The list comprehension raises
\* before the assignment, so a failing call leaves the labels as they were.
CreateNumericalLabels(labels, l2i) ==
    IF \A k \in 1..Len(labels) : PyUpper(labels[k]) \in DOMAIN l2i
    THEN [error |-> NoError,
          labels |-> [k \in 1..Len(labels) |-> l2i[PyUpper(labels[k])]]]
    ELSE [error |-> [type |-> "MissingLabel",
                     label |-> MissingLabelOf(labels, l2i),
                     label2id |-> l2i],
          labels |-> labels]

\* The task configurations; the feature and label columns of the
\* sentiment dataset.
QATask == [name |-> "qa", supertask |-> "question-answering",
           pretty_name |-> "question answering"]
SENT == [name |-> "sent", supertask |-> "text-classification"]
feature_column_names == <<"text">>
label_column_name == "label"

\* The sequence-classification batches: the columns the dataset has and the
\* raw labels of its label column (none when the column is absent, one row
\* when the feature column is absent).
ColumnSets == {{"text", "label"}, {"label"}, {"text"}}
SCBatches ==
    {[columns |-> {"text", "label"}, labels |-> lbls] :
        lbls \in SeqsUpTo(RawLabels, 1, MaxBatch)}
    \cup {[columns |-> {"label"}, labels |-> <<lbl>>] : lbl \in RawLabels}
    \cup {[columns |-> {"text"}, labels |-> <<>>]}

\* SequenceClassification._preprocess_data: the exception raised (or
\* NoError), the labels of the preprocessed dataset, examples["labels"] of
\* the tokenised batch when the call ends, and the number of tokenizer
\* calls.  examples[feat_col] is evaluated before the tokenizer is called
\* and examples[label_column_name] after it; either KeyError becomes
\* WrongFeatureColumnName.
SC_preprocess_data(fw, batch, l2i) ==
    IF fw = "spacy"
    THEN [error |-> [type |-> "InvalidEvaluation",
                     message |-> "Evaluation of text predictions for SpaCy models is not yet implemented."],
          labels |-> <<>>, batch_labels |-> <<>>, tokenizer_calls |-> 0]
    ELSE IF \E k \in 1..Len(feature_column_names) :
                feature_column_names[k] \notin batch.columns
    THEN [error |-> [type |-> "WrongFeatureColumnName",
                     columns |-> feature_column_names],
          labels |-> <<>>, batch_labels |-> <<>>, tokenizer_calls |-> 0]
    ELSE IF label_column_name \notin batch.columns
    THEN [error |-> [type |-> "WrongFeatureColumnName",
                     columns |-> feature_column_names],
          labels |-> <<>>, batch_labels |-> <<>>, tokenizer_calls |-> 1]
    ELSE LET r == CreateNumericalLabels(batch.labels, l2i)
         IN  [error |-> r.error,
              labels |-> IF r.error = NoError THEN r.labels ELSE <<>>,
              batch_labels |-> r.labels,
              tokenizer_calls |-> 1]

-----------------------------------------------------------------------------
(* prepare_test_examples and the spaCy hooks of the question-answering task *)

context_index == 1
SeqNone == [type |-> "none"]
SequenceIdValues == {SeqNone, PyInt(0), PyInt(context_index)}

\* The sequence ids of a window: special tokens and padding have None, the
\* question 0, the context 1; a window starts with the classifier token,
\* the question comes before the context and every window holds a context
\* token.
SequenceIdLists ==
    {q \in [1..max_length -> SequenceIdValues] :
        /\ q[1] = SeqNone
        /\ \E k \in 1..max_length : q[k] = PyInt(context_index)
        /\ \A j, k \in 1..max_length :
              (j < k /\ q[j] = PyInt(context_index)) => q[k] # PyInt(0)}

\* The character offsets the tokenizer reports: (0, 0) for a special token,
\* consecutive one-character spans within the question or, from character
\* c on, within the context.
TokenizerOffsets(q, c) ==
    [k \in 1..Len(q) |->
        LET before == Cardinality({j \in 1..(k - 1) : q[j] = q[k]})
        IN  IF q[k] = SeqNone THEN <<0, 0>>
            ELSE IF q[k] = PyInt(0) THEN <<before, before + 1>>
            ELSE <<c + before, c + before + 1>>]

TokenizerInputIds(q) ==
    [k \in 1..Len(q) |->
        IF q[k] = SeqNone THEN (IF k = 1 THEN 101 ELSE 0) ELSE 7]

\* overflow_to_sample_mapping: every example gives at least one window and
\* the windows of an example are consecutive.
SampleMappings(n, w) ==
    {m \in [1..w -> 1..n] :
        /\ \A i \in 1..n : \E j \in 1..w : m[j] = i
        /\ \A j \in 1..(w - 1) : m[j] <= m[j + 1]}

\* What the tokenizer returns for a batch of n examples.
TokenizerOutputs(n) ==
    {[sequence_ids |-> sq,
      overflow_to_sample_mapping |-> m,
      offset_mapping |->
          [i \in 1..Len(sq) |->
              TokenizerOffsets(sq[i],
                  Cardinality({j \in 1..(i - 1) : m[j] = m[i]}))],
      input_ids |-> [i \in 1..Len(sq) |-> TokenizerInputIds(sq[i])]] :
        <<sq, m>> \in UNION {[1..w -> SequenceIdLists] \X SampleMappings(n, w) :
                                w \in n..Max(n, MaxFeatures)}}

Questions == {<<" ", "w">>, <<"w", " ">>}
QAExampleList == <<ExampleA, ExampleB, [ExampleA2 EXCEPT !.id = "c"]>>
QABatches ==
    {[id |-> [k \in 1..n |-> QAExampleList[k].id],
      context |-> [k \in 1..n |-> QAExampleList[k].context],
      question |-> qs] :
        <<n, qs>> \in UNION {{m} \X [1..m -> Questions] : m \in 1..Min(MaxExamples, 3)}}

\* A rewrite that keeps the offsets of every position that has a sequence
\* id, the question's included.
RewriteOffsets_KeepsQuestion(offset_mapping, sequence_ids) ==
    [k \in 1..Len(offset_mapping) |->
        IF sequence_ids[k] # SeqNone THEN offset_mapping[k] ELSE SENTINEL]

\* Lines 148-153: the offsets of the positions outside the context become
\* (-1, -1).
RewriteOffsets(offset_mapping, sequence_ids) ==
    [k \in 1..Len(offset_mapping) |->
        IF PyEq(sequence_ids[k], PyInt(context_index))
        THEN offset_mapping[k]
        ELSE SENTINEL]

\* prepare_test_examples: the examples with the questions stripped on the
\* left and the tokenized examples with the ids and the rewritten offsets.
PrepareTestExamples(batch, tok) ==
    [examples |-> [batch EXCEPT !.question =
                      [k \in 1..Len(batch.question) |-> PyLstrip(batch.question[k])]],
     tokenized_examples |->
        [input_ids |-> tok.input_ids,
         offset_mapping |->
            [i \in 1..Len(tok.input_ids) |->
                RewriteOffsets(tok.offset_mapping[i], tok.sequence_ids[i])],
         id |-> [i \in 1..Len(tok.input_ids) |->
                    batch.id[tok.overflow_to_sample_mapping[i]]]]]

\* A hook that hands the examples through.
QA_spacy_preprocess_fn_PassThrough(cfg) == NoError

\* QuestionAnswering._spacy_preprocess_fn and _extract_spacy_predictions:
\* the exception they raise.
QA_spacy_preprocess_fn(cfg) ==
    [type |-> "FrameworkCannotHandleTask", framework |-> "spaCy",
     task |-> cfg.pretty_name]
QA_extract_spacy_predictions(cfg) ==
    [type |-> "FrameworkCannotHandleTask", framework |-> "spaCy",
     task |-> cfg.pretty_name]

-----------------------------------------------------------------------------
(* The task pipeline: Idle -> Preprocessed -> Inferred -> Postprocessed ->  *)
(* Scored, or Idle -> Error when the preprocessing raises                   *)

InitTask ==
    /\ dataset = <<>>
    /\ prepared_dataset = <<>>
    /\ cls_token_index \in ClsTokenIds
    /\ all_start_logits = NoRows
    /\ all_end_logits = NoRows
    /\ pc = "off"
    /\ features_per_example = <<>>
    /\ example_index = 0
    /\ fpos = 0
    /\ min_null_score = 0
    /\ valid_answers = <<>>
    /\ best_answer = FakeAnswer
    /\ predictions = <<>>
    /\ returned = <<>>
    /\ error = NoError
    /\ framework \in {"pytorch", "spacy"}
    /\ \/ /\ task_config = QATask
          /\ examples \in QABatches
          /\ label2id = NoRows
       \/ /\ task_config = SENT
          /\ examples \in SCBatches
          /\ label2id \in Label2ids
    /\ stage = "Idle"
    /\ tokenised = NoOutput
    /\ preprocessed = NoOutput
    /\ task_error = NoError
    /\ tokenizer_calls = 0
    /\ predict_calls = 0
    /\ ConfigOff

\* The outcome of a preprocessing: the stage reached and what it left.
Finish(err, exs, tok, out, calls) ==
    /\ stage' = IF err = NoError THEN "Preprocessed" ELSE "Error"
    /\ task_error' = err
    /\ examples' = exs
    /\ tokenised' = tok
    /\ preprocessed' = out
    /\ tokenizer_calls' = tokenizer_calls + calls
    /\ UNCHANGED <<task_config, framework, label2id, predict_calls>>
    /\ UNCHANGED qaVars
    /\ UNCHANGED cfgVars

\* The preprocessing stage of the sequence-classification task.
PreprocessSC ==
    /\ stage = "Idle"
    /\ task_config.supertask = "text-classification"
    /\ LET r == SC_preprocess_data(framework, examples, label2id)
       IN  Finish(r.error, examples, [labels |-> r.batch_labels],
                  IF r.error = NoError THEN [labels |-> r.labels] ELSE NoOutput,
                  r.tokenizer_calls)

\* The preprocessing stage of the question-answering task with a spaCy
\* model: the spaCy hook is applied to the examples.
PreprocessQASpacy ==
    /\ stage = "Idle"
    /\ task_config.supertask = "question-answering"
    /\ framework = "spacy"
    /\ Finish(QA_spacy_preprocess_fn(task_config), examples, NoOutput,
              IF QA_spacy_preprocess_fn(task_config) = NoError
              THEN examples ELSE NoOutput, 0)

\* The preprocessing stage of the question-answering task with a tensor
\* model: _pytorch_preprocess_fn, that is prepare_test_examples.
PreprocessQAPytorch ==
    /\ stage = "Idle"
    /\ task_config.supertask = "question-answering"
    /\ framework = "pytorch"
    /\ \E tok \in TokenizerOutputs(Len(examples.id)) :
        LET r == PrepareTestExamples(examples, tok)
        IN  Finish(NoError, r.examples, tok, r.tokenized_examples, 1)

Predict ==
    /\ stage = "Preprocessed"
    /\ stage' = "Inferred"
    /\ predict_calls' = predict_calls + 1
    /\ UNCHANGED <<task_config, framework, examples, label2id, tokenised,
                   preprocessed, task_error, tokenizer_calls>>
    /\ UNCHANGED qaVars
    /\ UNCHANGED cfgVars

Postprocess ==
    /\ stage = "Inferred"
    /\ stage' = "Postprocessed"
    /\ UNCHANGED <<task_config, framework, examples, label2id, tokenised,
                   preprocessed, task_error, tokenizer_calls, predict_calls>>
    /\ UNCHANGED qaVars
    /\ UNCHANGED cfgVars

Score ==
    /\ stage = "Postprocessed"
    /\ stage' = "Scored"
    /\ UNCHANGED <<task_config, framework, examples, label2id, tokenised,
                   preprocessed, task_error, tokenizer_calls, predict_calls>>
    /\ UNCHANGED qaVars
    /\ UNCHANGED cfgVars

NextTask ==
    PreprocessSC \/ PreprocessQASpacy \/ PreprocessQAPytorch
        \/ Predict \/ Postprocess \/ Score

SpecTask == InitTask /\ [][NextTask]_vars

-----------------------------------------------------------------------------
(* get_from_config: the configuration of a local model *)

MaxCalls == 2

\* Python values: None, str, int, float, bool, list of str, dict of str.
PyNone == [type |-> "none"]
PyStr(str) == [type |-> "str", val |-> str]
PyFloat(x) == [type |-> "float", val |-> x]
PyBool(b) == [type |-> "bool", val |-> b]
PyList(items) == [type |-> "list", val |-> items]
PyDict(d) == [type |-> "dict", val |-> d]

\* isinstance(value, expected_type); bool is a subclass of int.
IsInstance(value, type) ==
    value.type = type \/ (type = "int" /\ value.type = "bool")

\* The types the input parsing handles (lines 333-346).
ExpectedTypes == {"str", "int", "float", "bool", "list", "dict"}

\* json.dumps of a value and json.loads of what it wrote: a str becomes a
\* JSON string, an int or a float a number (a float keeps its fraction
\* point), a bool a literal, a list an array, a dict an object.
ToJson(value) ==
    CASE value.type = "str" -> [json |-> "string", text |-> value.val]
      [] value.type = "int" -> [json |-> "number", text |-> value.val, point |-> FALSE]
      [] value.type = "float" -> [json |-> "number", text |-> value.val, point |-> TRUE]
      [] value.type = "bool" ->
            [json |-> "literal", text |-> IF value.val THEN "true" ELSE "false"]
      [] value.type = "list" ->
            [json |-> "array",
             text |-> [k \in 1..Len(value.val) |->
                          [json |-> "string", text |-> value.val[k]]]]
      [] value.type = "dict" ->
            [json |-> "object",
             text |-> [k \in DOMAIN value.val |->
                          [json |-> "string", text |-> value.val[k]]]]
FromJson(doc) ==
    CASE doc.json = "string" -> PyStr(doc.text)
      [] doc.json = "number" -> IF doc.point THEN PyFloat(doc.text) ELSE PyInt(doc.text)
      [] doc.json = "literal" -> PyBool(doc.text = "true")
      [] doc.json = "array" -> PyList([k \in 1..Len(doc.text) |-> doc.text[k].text])
      [] doc.json = "object" -> PyDict([k \in DOMAIN doc.text |-> doc.text[k].text])
JsonDumps(config) == [k \in DOMAIN config |-> ToJson(config[k])]
JsonLoads(document) == [k \in DOMAIN document |-> FromJson(document[k])]

\* str.split(sep) for a one-character separator, and str.split(): the
\* pieces between runs of whitespace, none of them empty.
RECURSIVE SplitOn(_, _)
SplitOn(str, sep) ==
    IF \E i \in 1..Len(str) : str[i] = sep
    THEN LET i == CHOOSE i \in 1..Len(str) :
                    str[i] = sep /\ \A j \in 1..(i - 1) : str[j] # sep
         IN  <<SubSeq(str, 1, i - 1)>> \o SplitOn(SubSeq(str, i + 1, Len(str)), sep)
    ELSE <<str>>
PySplit(str) ==
    LET blank == [i \in 1..Len(str) |-> IF str[i] \in Whitespace THEN " " ELSE str[i]]
        NonEmpty(piece) == piece # <<>>
    IN  SelectSeq(SplitOn(blank, " "), NonEmpty)

\* str.strip(), and int(str) for an unsigned decimal literal.
RECURSIVE PyRstrip(_)
PyRstrip(str) ==
    IF Len(str) > 0 /\ str[Len(str)] \in Whitespace
    THEN PyRstrip(SubSeq(str, 1, Len(str) - 1)) ELSE str
PyStrip(str) == PyRstrip(PyLstrip(str))
DigitChars == <<"0", "1", "2", "3", "4", "5", "6", "7", "8", "9">>
IsDigit(c) == \E d \in 1..Len(DigitChars) : DigitChars[d] = c
DigitValue(c) == (CHOOSE d \in 1..Len(DigitChars) : DigitChars[d] = c) - 1
IsDecimal(str) ==
    Len(PyStrip(str)) > 0 /\ \A i \in 1..Len(PyStrip(str)) : IsDigit(PyStrip(str)[i])
RECURSIVE DecimalValue(_)
DecimalValue(str) ==
    IF str = <<>> THEN 0
    ELSE 10 * DecimalValue(SubSeq(str, 1, Len(str) - 1)) + DigitValue(str[Len(str)])

ValueError == [type |-> "ValueError"]

\* dict(item.split("=") for item in user_input.split(",")): every item must
\* split into exactly two pieces; a repeated key keeps its last value.
DictItems(user_input) ==
    LET items == SplitOn(user_input, ",")
    IN  [k \in 1..Len(items) |-> SplitOn(items[k], "=")]
ParseDict(user_input) ==
    LET pairs == DictItems(user_input)
    IN  IF \E k \in 1..Len(pairs) : Len(pairs[k]) # 2
        THEN [error |-> ValueError, value |-> PyNone]
        ELSE [error |-> NoError,
              value |-> PyDict([key \in {pairs[k][1] : k \in 1..Len(pairs)} |->
                            pairs[CHOOSE k \in 1..Len(pairs) :
                                    /\ pairs[k][1] = key
                                    /\ \A j \in (k + 1)..Len(pairs) : pairs[j][1] # key][2]])]

\* Lines 333-346: the value parsed from a non-default user entry.
ParseInput(type, user_input) ==
    CASE type = "str" -> [error |-> NoError, value |-> PyStr(user_input)]
      [] type = "int" ->
            IF IsDecimal(user_input)
            THEN [error |-> NoError, value |-> PyInt(DecimalValue(PyStrip(user_input)))]
            ELSE [error |-> ValueError, value |-> PyNone]
      [] type = "float" ->
            IF IsDecimal(user_input)
            THEN [error |-> NoError, value |-> PyFloat(DecimalValue(PyStrip(user_input)))]
            ELSE [error |-> ValueError, value |-> PyNone]
      [] type = "bool" ->
            [error |-> NoError,
             value |-> PyBool(PyLower(user_input) = <<"t", "r", "u", "e">>)]
      [] type = "list" -> [error |-> NoError, value |-> PyList(PySplit(user_input))]
      [] type = "dict" -> ParseDict(user_input)

\* A call that returns without saving the configuration.
WriteConfig_Skip(files, config_path, config) == files

\* Lines 349-351: config_path.write_text(json.dumps(config, indent=4)),
\* after the file was created when it did not exist.
WriteConfig(files, config_path, config) ==
    [name \in DOMAIN files \cup {config_path} |->
        IF name = config_path THEN JsonDumps(config) ELSE files[name]]

\* model_folder.glob("*.json"): the files of the folder, in the order glob
\* lists them (arbitrary, the same for every call).
ConfigPaths(files, order) ==
    LET Exists(name) == name \in DOMAIN files
    IN  SelectSeq(order, Exists)

\* get_from_config(key, expected_type, model_folder, default_value,
\* user_prompt, user_prompt_default_value) with the entry the user makes if
\* prompted: the files it leaves and the record of the call (whether the key
\* was there, whether the user was prompted, whether the file was written
\* and whether it was created, the exception raised, the value returned).
GetFromConfig(files, order, key, type, default, prompt_default, user_input) ==
    LET config_paths == ConfigPaths(files, order)
        config_path == IF config_paths = <<>> THEN "config.json" ELSE config_paths[1]
        config == IF config_paths = <<>> THEN NoRows ELSE JsonLoads(files[config_path])
        Call(had_key, prompted, wrote, raised, value) ==
            [key |-> key, had_key |-> had_key, prompted |-> prompted,
             user_input |-> IF prompted THEN user_input ELSE <<>>,
             wrote |-> wrote, created |-> wrote /\ config_paths = <<>>,
             raised |-> raised, value |-> value]
        Save(prompted, value) ==
            [folder |-> WriteConfig(files, config_path, (key :> value) @@ config),
             call |-> Call(FALSE, prompted, TRUE, NoError, value)]
    IN  IF key \in DOMAIN config
        THEN [folder |-> files, call |-> Call(TRUE, FALSE, FALSE, NoError, config[key])]
        ELSE IF default # PyNone /\ IsInstance(default, type)
        THEN Save(FALSE, default)
        ELSE IF user_input = <<>> /\ prompt_default # PyNone
        THEN Save(TRUE, prompt_default)
        ELSE IF ParseInput(type, user_input).error # NoError
        THEN [folder |-> files,
              call |-> Call(FALSE, TRUE, FALSE, ParseInput(type, user_input).error, PyNone)]
        ELSE Save(TRUE, ParseInput(type, user_input).value)

\* The keys get_model_config_locally asks for, the entries a user makes and
\* the default values of the calls.
Keys == {"id2label", "tokenizer_id"}
UserInputs ==
    {<<>>, <<"7">>, <<"T", "r", "u", "e">>, <<"A", ",", "B", ",", "C">>,
     <<"A", " ", "B">>, <<"k", "=", "v">>}
dataset_id2label == PyList(<< <<"X">>, <<"Y">> >>)
DefaultValues == {PyNone, dataset_id2label, PyStr(<<"t">>), PyBool(TRUE)}
PromptDefaultValues == {PyNone, dataset_id2label}

\* The model folders: without a JSON file, with config.json (empty, or
\* holding the tokenizer id), with another JSON file holding the labels, or
\* with both files.
ConfigJson == "config.json"
OtherJson == "model.json"
StoredTokenizer == JsonDumps("tokenizer_id" :> PyStr(<<"t">>))
StoredLabels == JsonDumps("id2label" :> PyList(<< <<"X">> >>))
Folders ==
    {NoRows,
     ConfigJson :> JsonDumps(NoRows),
     ConfigJson :> StoredTokenizer,
     OtherJson :> StoredLabels,
     (ConfigJson :> StoredTokenizer) @@ (OtherJson :> StoredLabels)}
GlobOrders(files) ==
    IF DOMAIN files = {ConfigJson, OtherJson}
    THEN {<<ConfigJson, OtherJson>>, <<OtherJson, ConfigJson>>}
    ELSE {<<ConfigJson, OtherJson>>}

\* The pipeline and the postprocessing are not run while the configuration
\* is looked up.
QAOff ==
    /\ dataset = <<>>
    /\ prepared_dataset = <<>>
    /\ cls_token_index = 0
    /\ all_start_logits = NoRows
    /\ all_end_logits = NoRows
    /\ pc = "off"
    /\ features_per_example = <<>>
    /\ example_index = 0
    /\ fpos = 0
    /\ min_null_score = 0
    /\ valid_answers = <<>>
    /\ best_answer = FakeAnswer
    /\ predictions = <<>>
    /\ returned = <<>>
    /\ error = NoError

InitConfig ==
    /\ folder \in Folders
    /\ glob_order \in GlobOrders(folder)
    /\ expected_type \in ExpectedTypes
    /\ default_value \in DefaultValues
    /\ user_prompt_default_value \in PromptDefaultValues
    /\ config_calls = <<>>
    /\ QAOff
    /\ TaskOff

\* One call of get_from_config; the user makes an entry only when prompted.
CallGetFromConfig ==
    /\ Len(config_calls) < MaxCalls
    /\ \E key \in Keys, user_input \in UserInputs :
          LET r == GetFromConfig(folder, glob_order, key, expected_type,
                                 default_value, user_prompt_default_value, user_input)
          IN  /\ r.call.prompted \/ user_input = <<>>
              /\ folder' = r.folder
              /\ config_calls' = Append(config_calls, r.call)
    /\ UNCHANGED <<glob_order, expected_type, default_value, user_prompt_default_value>>
    /\ UNCHANGED qaVars
    /\ UNCHANGED taskVars

NextConfig == CallGetFromConfig

SpecConfig == InitConfig /\ [][NextConfig]_vars

-----------------------------------------------------------------------------
(* Properties of the question-answering postprocessing *)

SeqIds(s) == {s[k].id : k \in 1..Len(s)}

\* The example decided last, when the example loop is between two examples.
Decided == pc = "example" /\ example_index > 1
LastDecided == example_index - 1

\* The positions of a feature that belong to the context.
InContext(f) == {k \in 1..Len(f.offset_mapping) : f.offset_mapping[k] # SENTINEL}

\* C1: every (start_index, end_index) pair appended to valid_answers has
\* start <= end (both valid positions), spans at most max_answer_length
\* tokens, and neither of its offset entries is SENTINEL.
C1_SpanFiltering ==
    \A k \in 1..Len(valid_answers) :
        LET c == valid_answers[k]
            om == prepared_dataset[c.feature_index].offset_mapping
        IN  /\ 1 <= c.start_index
            /\ c.start_index <= c.end_index
            /\ c.end_index - c.start_index + 1 <= max_answer_length
            /\ om[c.start_index] # SENTINEL
            /\ om[c.end_index] # SENTINEL

\* C2: the prediction text of a decided example is the text of the chosen
\* candidate, a highest-scoring one, when its score is strictly greater than
\* the running null-answer reference score, and is empty otherwise; so it is
\* empty when no candidate scores above the reference score.
C2_NullAnswerDecision ==
    Decided =>
        LET text == predictions[LastDecided].prediction_text
        IN  /\ Len(valid_answers) > 0 =>
                /\ \E k \in 1..Len(valid_answers) :
                      /\ valid_answers[k].score = best_answer.score
                      /\ valid_answers[k].text = best_answer.text
                /\ \A k \in 1..Len(valid_answers) :
                      valid_answers[k].score <= best_answer.score
            /\ best_answer.score > min_null_score => text = best_answer.text
            /\ ~(best_answer.score > min_null_score) => text = <<>>
            /\ (\A k \in 1..Len(valid_answers) :
                    valid_answers[k].score <= min_null_score) => text = <<>>

\* C2 witness: an example with several candidates was decided and the best
\* of them, scoring above the reference score, gave a non-empty text.
C2_Witness ==
    /\ Decided
    /\ Len(valid_answers) > 1
    /\ best_answer.score > min_null_score
    /\ predictions[LastDecided].prediction_text # <<>>

\* C3: the call returns one (predictions, labels) pair; both lists have one
\* entry per example in dataset order, the k-th prediction and the k-th
\* label carry the id of the k-th example, the two id sets are equal, and
\* every no_answer_probability is 0.0.
C3_PredictionsAlignWithLabels ==
    pc = "done" =>
        /\ Len(returned) = 1
        /\ LET preds == returned[1][1]
               labels == returned[1][2]
           IN  /\ Len(preds) = Len(dataset)
               /\ Len(labels) = Len(dataset)
               /\ \A k \in 1..Len(dataset) :
                     /\ preds[k].id = dataset[k].id
                     /\ labels[k].id = dataset[k].id
                     /\ preds[k].no_answer_probability = 0
               /\ SeqIds(labels) = SeqIds(preds)

\* C3 witness: the call returned for a dataset of two examples with
\* different ids, one of them without an answer.
C3_Witness ==
    /\ pc = "done"
    /\ Len(dataset) = 2
    /\ dataset[1].id # dataset[2].id
    /\ Len(returned) = 1

\* The null score of a visited feature exceeds the score of every pair of
\* in-context positions.
ClsDominates(fi) ==
    LET f == prepared_dataset[fi]
        cls == ListIndex(f.input_ids, cls_token_index)
        sl == all_start_logits[fi]
        el == all_end_logits[fi]
    IN  \A s \in InContext(f), e \in InContext(f) :
            sl[cls] + el[cls] > sl[s] + el[e]

\* C4: when in each feature of an example the null score exceeds every
\* in-context combination, the prediction text of the example is empty,
\* whatever the logits at the other positions are.
C4_ClsDominatesGivesEmpty ==
    (/\ Decided
     /\ \A k \in 1..Len(features_per_example[LastDecided]) :
            ClsDominates(features_per_example[LastDecided][k]))
        => predictions[LastDecided].prediction_text = <<>>

\* A feature of some example of the dataset lacks the classifier token.
MalformedFeature ==
    \E i \in 1..Len(prepared_dataset) :
        /\ IdToIndex(dataset, prepared_dataset[i].id) # 0
        /\ \A k \in 1..Len(prepared_dataset[i].input_ids) :
              prepared_dataset[i].input_ids[k] # cls_token_index

\* C10: when a feature of some example lacks the classifier token, the call
\* never returns a prediction list, and it can only stop in the error state.
C10_MissingClsAborts ==
    MalformedFeature =>
        /\ pc # "done"
        /\ returned = <<>>
        /\ ~ENABLED NextQA => (pc = "error" /\ error # NoError)

\* C10 witness: the call aborted on a missing classifier token after it had
\* already built the prediction of an earlier example.
C10_Witness ==
    /\ pc = "error"
    /\ error.type = "ValueError"
    /\ Len(predictions) > 0
    /\ returned = <<>>


-----------------------------------------------------------------------------
(* Properties of the preprocessing stage and of the pipeline *)

IsQA == task_config.supertask = "question-answering"
IsSC == task_config.supertask = "text-classification"
CannotHandle ==
    [type |-> "FrameworkCannotHandleTask", framework |-> "spaCy",
     task |-> task_config.pretty_name]

\* C5: after prepare_test_examples every offset entry of a context position
\* (sequence id 1) is the tokenizer's entry unchanged and every other entry
\* (question, padding, special token) is (-1, -1); the number of windows and
\* the length of every offset mapping are those of the tokenizer's output.
C5_OffsetRewrite ==
    (IsQA /\ framework = "pytorch" /\ stage # "Idle") =>
        /\ Len(preprocessed.offset_mapping) = Len(tokenised.offset_mapping)
        /\ Len(preprocessed.input_ids) = Len(tokenised.input_ids)
        /\ \A i \in 1..Len(tokenised.offset_mapping) :
              /\ Len(preprocessed.offset_mapping[i]) = Len(tokenised.offset_mapping[i])
              /\ \A k \in 1..Len(tokenised.offset_mapping[i]) :
                    preprocessed.offset_mapping[i][k] =
                        IF tokenised.sequence_ids[i][k] = PyInt(1)
                        THEN tokenised.offset_mapping[i][k]
                        ELSE <<-1, -1>>

\* C5 witness: two windows were prepared, one of which holds a special
\* token, a question token and a context token.
C5_Witness ==
    /\ IsQA
    /\ stage = "Preprocessed"
    /\ Len(preprocessed.offset_mapping) = 2
    /\ \E i \in 1..2 :
          /\ tokenised.sequence_ids[i] = <<SeqNone, PyInt(0), PyInt(1)>>
          /\ preprocessed.offset_mapping[i] = <<SENTINEL, SENTINEL, tokenised.offset_mapping[i][3]>>

\* The declared names of every label, in lower case; a raw label is a
\* spelling of label c when, letter case aside, it is one of c's names.
LowerCaseNames ==
    [c \in 1..Len(SENT_labels) |->
        {PyLower(str) : str \in LabelNames(SENT_labels[c])}]
IsSpellingOf(raw, c) == PyLower(raw) \in LowerCaseNames[c]

\* The batch reached _create_numerical_labels.
Numericalised ==
    /\ IsSC
    /\ framework = "pytorch"
    /\ stage # "Idle"
    /\ examples.columns = {"text", "label"}

\* C6: with a mapping that holds every canonical name and every declared
\* synonym, a batch of declared names in any letter case is converted, each
\* label to the id of its canonical label; and with any mapping, a batch
\* with a label whose upper-cased form is no key fails with MissingLabel.
C6_SynonymsCanonicalised ==
    Numericalised =>
        /\ (/\ label2id = FullLabel2id(SENT_labels)
            /\ \A k \in 1..Len(examples.labels) :
                  \E c \in 1..Len(SENT_labels) :
                      IsSpellingOf(examples.labels[k], c))
              => /\ task_error = NoError
                 /\ Len(preprocessed.labels) = Len(examples.labels)
                 /\ \A k \in 1..Len(examples.labels) :
                       \A c \in 1..Len(SENT_labels) :
                           IsSpellingOf(examples.labels[k], c)
                               => preprocessed.labels[k] = c - 1
        /\ (\E k \in 1..Len(examples.labels) :
                PyUpper(examples.labels[k]) \notin DOMAIN label2id)
              => (stage = "Error" /\ task_error.type = "MissingLabel")

\* C6 witness: "neg" and "Neg" were converted to the id of NEGATIVE.
C6_Witness ==
    /\ Numericalised
    /\ examples.labels = <<PyLower(NEG), Neg_mixed>>
    /\ task_error = NoError
    /\ preprocessed.labels = <<0, 0>>

\* The first label of the batch whose upper-cased form is no key.
FirstUnmappedRaw ==
    examples.labels[CHOOSE k \in 1..Len(examples.labels) :
        /\ PyUpper(examples.labels[k]) \notin DOMAIN label2id
        /\ \A j \in 1..(k - 1) : PyUpper(examples.labels[j]) \in DOMAIN label2id]

\* C7: question answering with a spaCy model fails in the preprocessing,
\* from Idle, with FrameworkCannotHandleTask carrying the framework and the
\* task name; the pipeline ends in the error state and no inference call is
\* made; _extract_spacy_predictions raises the same condition.
C7_QASpacyAborts ==
    (IsQA /\ framework = "spacy") =>
        /\ stage \in {"Idle", "Error"}
        /\ predict_calls = 0
        /\ stage = "Idle" => ENABLED NextTask
        /\ stage = "Error" =>
              /\ task_error = CannotHandle
              /\ task_error = QA_extract_spacy_predictions(task_config)
              /\ ~ENABLED NextTask

\* C7 witness: the question-answering pipeline with a spaCy model has failed.
C7_Witness ==
    /\ IsQA
    /\ framework = "spacy"
    /\ stage = "Error"
    /\ task_error.type = "FrameworkCannotHandleTask"

\* C8: for every task kind, a spaCy model makes the preprocessing
\* fail with FrameworkCannotHandleTask naming the framework and the task,
\* before any tokenizer or inference call.
C8_EveryTaskCannotHandle ==
    (framework = "spacy" /\ stage # "Idle") =>
        /\ stage = "Error"
        /\ task_error.type = "FrameworkCannotHandleTask"
        /\ task_error.framework = "spaCy"
        /\ task_error.task = task_config.pretty_name
        /\ tokenizer_calls = 0
        /\ predict_calls = 0

\* C9: a batch with a label that has no match in the mapping fails with
\* MissingLabel, which carries the first unmapped label exactly as it appears
\* in the batch and the full mapping; the failure ends the pipeline and the
\* labels of the batch are left as they were.
C9_ReportsLabelAsWritten ==
    /\ (/\ Numericalised
        /\ \E k \in 1..Len(examples.labels) :
              PyUpper(examples.labels[k]) \notin DOMAIN label2id)
          => task_error.type = "MissingLabel"
    /\ task_error.type = "MissingLabel" =>
          /\ task_error.label = FirstUnmappedRaw
          /\ task_error.label2id = label2id
          /\ tokenised.labels = examples.labels
          /\ preprocessed = NoOutput
          /\ stage = "Error"

-----------------------------------------------------------------------------
(* Further properties of the question-answering postprocessing *)

Scanned ==
    {features_per_example[example_index][k] : k \in 1..fpos}
NullScoreOf(fi) ==
    LET cls == CHOOSE k \in 1..Len(prepared_dataset[fi].input_ids) :
                  /\ prepared_dataset[fi].input_ids[k] = cls_token_index
                  /\ \A j \in 1..(k - 1) :
                        prepared_dataset[fi].input_ids[j] # cls_token_index
    IN  all_start_logits[fi][cls] + all_end_logits[fi][cls]
SetMax(S) == CHOOSE x \in S : \A y \in S : y <= x

TopN(v) ==
    {i \in 1..Len(v) : Cardinality({j \in 1..Len(v) : v[j] > v[i]}) < n_best_size}
InRangeSpan(fi, start, end) ==
    /\ start <= Len(prepared_dataset[fi].offset_mapping)
    /\ end <= Len(prepared_dataset[fi].offset_mapping)
    /\ start <= end
    /\ end - start + 1 <= max_answer_length
SpanScore(fi, start, end) == all_start_logits[fi][start] + all_end_logits[fi][end]
SpanText(fi, start, end) ==
    PySlice(dataset[LastDecided].context,
            prepared_dataset[fi].offset_mapping[start][1],
            prepared_dataset[fi].offset_mapping[end][2])
TopSpans ==
    {c \in UNION {{fi} \X TopN(all_start_logits[fi]) \X TopN(all_end_logits[fi]) :
                    fi \in {features_per_example[LastDecided][k] :
                              k \in 1..Len(features_per_example[LastDecided])}} :
        InRangeSpan(c[1], c[2], c[3])}

\* C15: when an example with a surviving candidate is decided, the best
\* answer is the text and the score of a span of one of its own features
\* whose start and end are among the 20 largest start and end logits of
\* that feature, and no such span of any of its features scores higher.
C15_BestAmongTopSpans ==
    (Decided /\ Len(valid_answers) > 0) =>
        /\ \E c \in TopSpans :
              /\ best_answer.score = SpanScore(c[1], c[2], c[3])
              /\ best_answer.text = SpanText(c[1], c[2], c[3])
        /\ \A c \in TopSpans : SpanScore(c[1], c[2], c[3]) <= best_answer.score

\* C15 witness: an example with two long windows was decided, and a span
\* whose start is not among the 20 largest start logits of its window would
\* have scored higher than the best answer.
C15_Witness ==
    /\ Decided
    /\ Len(features_per_example[LastDecided]) = 2
    /\ Len(valid_answers) > 0
    /\ \E k \in 1..2 :
          LET fi == features_per_example[LastDecided][k]
          IN  \E start \in (1..LongWindow) \ TopN(all_start_logits[fi]),
                 end \in 1..LongWindow :
                  /\ InRangeSpan(fi, start, end)
                  /\ SpanScore(fi, start, end) > best_answer.score


\* The grouping loop has ended without a KeyError.
Grouped == pc # "start" /\ ~(pc = "error" /\ error.type = "KeyError")
InList(i, j) ==
    \E k \in 1..Len(features_per_example[j]) : features_per_example[j][k] = i
Ascending(s) == \A k \in 1..(Len(s) - 1) : s[k] < s[k + 1]
UnknownFeatureId ==
    \E i \in 1..Len(prepared_dataset) : prepared_dataset[i].id \notin SeqIds(dataset)

\* What both statements of C16 share: every feature index is in exactly one
\* list, once; every list is ascending; a feature whose id no example has
\* makes the call fail with KeyError before any prediction, and nothing else
\* makes the grouping fail.
GroupingShape ==
    /\ Grouped =>
          /\ DOMAIN features_per_example = 1..Len(dataset)
          /\ \A i \in 1..Len(prepared_dataset) :
                Cardinality({<<j, k>> \in (1..Len(dataset)) \X (1..Len(prepared_dataset)) :
                                /\ k <= Len(features_per_example[j])
                                /\ features_per_example[j][k] = i}) = 1
          /\ \A j \in 1..Len(dataset) :
                /\ Ascending(features_per_example[j])
                /\ \A k \in 1..Len(features_per_example[j]) :
                      features_per_example[j][k] \in 1..Len(prepared_dataset)
    /\ pc # "start" => (UnknownFeatureId <=> ~Grouped)
    /\ ~Grouped /\ pc # "start" => (predictions = <<>> /\ returned = <<>>)

\* C16 as stated: feature i is in the list of example j exactly when the
\* two ids are equal, for every example list; and the shape above.
C16_GroupedById ==
    /\ GroupingShape
    /\ Grouped =>
          \A i \in 1..Len(prepared_dataset), j \in 1..Len(dataset) :
              InList(i, j) <=> prepared_dataset[i].id = dataset[j].id

\* C16 as amended: feature i is in the list of example j exactly when j is
\* the last example whose id is the id of feature i (for pairwise distinct
\* example ids: exactly when the two ids are equal); and the shape above.
C16_GroupedByLastId ==
    /\ GroupingShape
    /\ Grouped =>
          \A i \in 1..Len(prepared_dataset), j \in 1..Len(dataset) :
              InList(i, j) <=>
                  /\ prepared_dataset[i].id = dataset[j].id
                  /\ \A j2 \in (j + 1)..Len(dataset) :
                        dataset[j2].id # prepared_dataset[i].id

\* C16 witness: two examples share an id and both features carry it; the
\* list of the second example holds both, the list of the first none.
C16_Witness ==
    /\ Grouped
    /\ Len(dataset) = 2
    /\ dataset[1].id = dataset[2].id
    /\ features_per_example = << <<>>, <<1, 2>> >>


-----------------------------------------------------------------------------
(* Further properties of the preprocessing stage *)

\* The feature columns the dataset lacks.
AbsentFeatureColumns ==
    {feature_column_names[k] : k \in 1..Len(feature_column_names)} \ examples.columns

\* C13: in the sequence-classification preprocessing with a tensor model, an
\* absent feature column makes the preprocessing fail with
\* WrongFeatureColumnName carrying the absent column names, before any label
\* is converted and without a second attempt; the condition is raised only
\* when a feature column is absent.
C13_WrongFeatureColumnName ==
    (IsSC /\ framework = "pytorch" /\ stage # "Idle") =>
        /\ AbsentFeatureColumns # {} =>
              /\ stage = "Error"
              /\ task_error.type = "WrongFeatureColumnName"
              /\ tokenised.labels = <<>>
              /\ preprocessed = NoOutput
              /\ tokenizer_calls <= 1
              /\ ~ENABLED NextTask
        /\ task_error.type = "WrongFeatureColumnName" =>
              /\ AbsentFeatureColumns # {}
              /\ {task_error.columns[k] : k \in 1..Len(task_error.columns)}
                    = AbsentFeatureColumns


-----------------------------------------------------------------------------
(* Independence of the examples *)

\* The features that carry the id of example j, in ascending order, when j
\* is the last example of that id; none otherwise.
OwnFeatures(j) ==
    IF \E j2 \in (j + 1)..Len(dataset) : dataset[j2].id = dataset[j].id
    THEN <<>>
    ELSE IndicesWhere([i \in 1..Len(prepared_dataset) |-> prepared_dataset[i].id],
                      dataset[j].id, 1)

\* The candidates of the features fis, feature by feature.
RECURSIVE CandidatesOf(_, _)
CandidatesOf(fis, context) ==
    IF fis = <<>> THEN <<>>
    ELSE FeatureCandidates(fis[1], prepared_dataset[fis[1]],
                           all_start_logits[fis[1]], all_end_logits[fis[1]], context)
            \o CandidatesOf(Tail(fis), context)

\* The prediction of example j computed from its id, its context, its own
\* features and their logit rows, and from nothing else.
OwnPrediction(j) ==
    LET own == OwnFeatures(j)
        null == SetMax({0} \cup {NullScoreOf(own[k]) : k \in 1..Len(own)})
    IN  [id |-> dataset[j].id,
         prediction_text |->
            PredictionText(BestAnswer(CandidatesOf(own, dataset[j].context)), null),
         no_answer_probability |-> 0]

\* C17: the prediction of an example is a function of its own context,
\* features and logit rows, whatever the call did for the examples before
\* it; once emitted it is not changed by what the call does for the examples
\* after it; and the call changes none of its inputs (a logit row that was
\* read stays as it was for as long as it is held).
C17_ExamplesIndependent ==
    /\ [](Decided => predictions[LastDecided] = OwnPrediction(LastDecided))
    /\ [][/\ Len(predictions') >= Len(predictions)
          /\ \A k \in 1..Len(predictions) : predictions'[k] = predictions[k]
          /\ dataset' = dataset
          /\ prepared_dataset' = prepared_dataset
          /\ cls_token_index' = cls_token_index
          /\ \A fi \in DOMAIN all_start_logits \cap DOMAIN all_start_logits' :
                /\ all_start_logits'[fi] = all_start_logits[fi]
                /\ all_end_logits'[fi] = all_end_logits[fi]]_vars

\* C17 witness: the second of two examples was decided with a non-empty
\* text after a first example with a feature of its own, laid out
\* differently, had been decided with an empty text.
C17_Witness ==
    /\ Decided
    /\ LastDecided = 2
    /\ Len(features_per_example[1]) = 1
    /\ Len(features_per_example[2]) = 1
    /\ prepared_dataset[features_per_example[1][1]].offset_mapping
          # prepared_dataset[features_per_example[2][1]].offset_mapping
    /\ predictions[1].prediction_text = <<>>
    /\ predictions[2].prediction_text # <<>>


-----------------------------------------------------------------------------
(* Properties of get_from_config *)

\* The configuration a call reads: that of the first file glob lists, the
\* empty one when the folder has no JSON file.
CurrentConfig(files) ==
    IF ConfigPaths(files, glob_order) = <<>> THEN NoRows
    ELSE JsonLoads(files[ConfigPaths(files, glob_order)[1]])
LastCall(cs) == cs[Len(cs)]

IsCommaSeparated(user_input) ==
    /\ user_input # <<>>
    /\ \A i \in 1..Len(user_input) : user_input[i] \notin Whitespace
    /\ \A k \in 1..Len(SplitOn(user_input, ",")) : SplitOn(user_input, ",")[k] # <<>>

\* C18: when the user is prompted for a key of expected type list, a
\* comma-separated entry of n items is stored and returned as the list of
\* those n items in entry order, and an empty entry with a
\* user_prompt_default_value returns that default value.
C18_CommaSeparatedEntry ==
    \A i \in 1..Len(config_calls) :
        LET c == config_calls[i]
        IN  (expected_type = "list" /\ c.prompted) =>
                /\ (c.user_input = <<>> /\ user_prompt_default_value # PyNone) =>
                      c.value = user_prompt_default_value
                /\ IsCommaSeparated(c.user_input) =>
                      /\ c.raised = NoError
                      /\ c.value = PyList(SplitOn(c.user_input, ","))
                      /\ c.wrote


====
